---- MODULE Spec2Model ----
(***************************************************************************)
(* A model of edm_iso_tester.py: the byte/line inspector (detect_eol_stats, *)
(* detect_line_endings_label, safe_decode, the splits), the line analyzer  *)
(* (analyze_text_lines), the normalizer (normalize_to_iso) and the         *)
(* comparator (compare_files).                                             *)
(*                                                                         *)
(* Text is a sequence of code points (naturals); a byte buffer is a        *)
(* sequence of byte values 0..255.  Each of the four operations has its    *)
(* own specification (SpecInspect, SpecAnalyze, SpecNormalize,             *)
(* SpecCompare) whose Init draws the operation's inputs from bounded sets. *)
(***************************************************************************)
EXTENDS Naturals, Integers, Sequences, FiniteSets, TLC

VARIABLES
    pc,                 \* position in the operation being run
    \* ---- analyze_file / detect_line_endings_label / file reads
    data,               \* the bytes of the file
    crlf, lf, cr,       \* detect_eol_stats' counts, as analyze_file holds them
    eol_label,          \* analyze_file's inline label
    label,              \* detect_line_endings_label's result
    non_ascii_positions,
    text,               \* the decoded text
    lines,              \* text.splitlines()
    \* ---- analyze_text_lines
    report,             \* analyze_text_lines' result
    \* ---- normalize_to_iso
    cfg,                \* start_n, step, add_percent, ensure_M02, crlf, strip_semicolon
    src_lines, out_lines, n,
    idx,                \* the for loop's position in src_lines
    assigned,           \* history: per out_lines entry, <<k>> when the normalizer gave it number k, else <<>>
    content,            \* the bytes written
    pass,               \* 1: first run, 2: run on the first run's output
    first_content,      \* the bytes the first run wrote
    first_n,            \* the counter at the end of the first run
    \* ---- compare_files
    policy,             \* skip_header_percent, skip_trailing_m02
    file_a, file_b,     \* the lines of the two files, as read
    la, lb, i, diff

inspectVars == <<data, crlf, lf, cr, eol_label, label, non_ascii_positions, text, lines>>
analyzeVars == <<report>>
normVars    == <<cfg, src_lines, out_lines, n, idx, assigned, content, pass, first_content, first_n>>
cmpVars     == <<policy, file_a, file_b, la, lb, i, diff>>
vars        == <<pc, inspectVars, analyzeVars, normVars, cmpVars>>

None == "None"

\* ------------------------------------------------------------ bounds
MaxBytes    == 4    \* longest byte buffer inspected
MaxAnaLines == 3    \* longest line sequence analyzed
MaxSrcLines == 3    \* longest line sequence normalized
MaxCmpLines == 2    \* longest line sequence compared

\* ------------------------------------------------------------ characters
\* The code point of a character written as a one-character string.
Ord(c) ==
    CASE c = "\t" -> 9   [] c = "\n" -> 10  [] c = "\f" -> 12  [] c = "\r" -> 13
      [] c = " " -> 32   [] c = "%" -> 37   [] c = "+" -> 43   [] c = "-" -> 45
      [] c = "." -> 46   [] c = "0" -> 48   [] c = "1" -> 49   [] c = "2" -> 50
      [] c = "3" -> 51   [] c = "4" -> 52   [] c = "5" -> 53   [] c = "6" -> 54
      [] c = "7" -> 55   [] c = "8" -> 56   [] c = "9" -> 57   [] c = ";" -> 59
      [] c = "<" -> 60   [] c = ">" -> 62   [] c = "E" -> 69   [] c = "F" -> 70
      [] c = "G" -> 71   [] c = "I" -> 73   [] c = "J" -> 74   [] c = "M" -> 77
      [] c = "N" -> 78   [] c = "O" -> 79   [] c = "X" -> 88   [] c = "Y" -> 89
      [] c = "Z" -> 90   [] c = "c" -> 99

\* A text literal: S(<<"M", "0", "2">>) is the text M02.
S(cs) == [k \in DOMAIN cs |-> Ord(cs[k])]

\* str.isspace(), which is also re's \s and what str.strip() removes (code points 0..255).
IsSpace(c) == c \in {9, 10, 11, 12, 13, 28, 29, 30, 31, 32, 133, 160}

\* re's \d on str (code points 0..255).
IsDigit(c) == c \in 48..57

\* re's \w on str (code points 0..255): alphanumerics and the underscore.
IsWord(c) ==
    \/ c \in 48..57 \/ c \in 65..90 \/ c = 95 \/ c \in 97..122
    \/ c \in {170, 178, 179, 181, 185, 186, 188, 189, 190}
    \/ c \in 192..214 \/ c \in 216..246 \/ c \in 248..255

\* The characters str.splitlines() ends a line at (code points 0..255); \r\n ends one line.
IsLineBreak(c) == c \in {10, 11, 12, 13, 28, 29, 30, 133}

\* ------------------------------------------------------------ sequences
SeqsUpTo(A, k) == UNION {[1..m -> A] : m \in 0..k}

Max2(a, b) == IF a >= b THEN a ELSE b

SubSeqFrom(s, k) == SubSeq(s, k, Len(s))

RECURSIVE Concat(_, _)
\* sep.join(ls)
Concat(ls, sep) ==
    IF ls = <<>> THEN <<>>
    ELSE IF Len(ls) = 1 THEN ls[1]
    ELSE ls[1] \o sep \o Concat(Tail(ls), sep)

\* ------------------------------------------------------------ str methods
RECURSIVE LStrip(_)
LStrip(s) == IF s # <<>> /\ IsSpace(s[1]) THEN LStrip(Tail(s)) ELSE s

RECURSIVE RStrip(_)
RStrip(s) ==
    IF s # <<>> /\ IsSpace(s[Len(s)]) THEN RStrip(SubSeq(s, 1, Len(s) - 1)) ELSE s

\* s.strip()
Strip(s) == RStrip(LStrip(s))

RECURSIVE SplitFrom(_, _, _, _)
SplitFrom(t, k, cur, acc) ==
    IF k > Len(t) THEN (IF cur = <<>> THEN acc ELSE Append(acc, cur))
    ELSE IF t[k] = 13 /\ k < Len(t) /\ t[k + 1] = 10
         THEN SplitFrom(t, k + 2, <<>>, Append(acc, cur))
    ELSE IF IsLineBreak(t[k]) THEN SplitFrom(t, k + 1, <<>>, Append(acc, cur))
    ELSE SplitFrom(t, k + 1, Append(cur, t[k]), acc)

\* t.splitlines()
SplitLines(t) == SplitFrom(t, 1, <<>>, <<>>)

\* s.split(';', 1)[0]
BeforeSemicolon(s) ==
    IF \E k \in DOMAIN s : s[k] = 59
    THEN SubSeq(s, 1, (CHOOSE k \in DOMAIN s : s[k] = 59 /\ \A j \in 1..(k - 1) : s[j] # 59) - 1)
    ELSE s

RECURSIVE Digits(_)
\* str(k) for k >= 0, as code points
Digits(k) == IF k < 10 THEN <<48 + k>> ELSE Digits(k \div 10) \o <<48 + (k % 10)>>

\* ------------------------------------------------------------ regular expressions
\* \b at the gap before s[k] (k = Len(s) + 1: the end of s).
WordBoundary(s, k) ==
    LET before == k > 1 /\ IsWord(s[k - 1])
        after  == k <= Len(s) /\ IsWord(s[k])
    IN  before # after

\* s has the literal w at s[k..].
LiteralAt(s, k, w) ==
    /\ k + Len(w) - 1 <= Len(s)
    /\ \A j \in DOMAIN w : s[k + j - 1] = w[j]

\* The search with the closing \b left out: rf'\b{code}'
SearchWordPrefix(s, code) ==
    \E k \in DOMAIN s : WordBoundary(s, k) /\ LiteralAt(s, k, code)

\* re.search(rf'\b{code}\b', s) for a literal code
SearchWord(s, code) ==
    \E k \in DOMAIN s :
        /\ WordBoundary(s, k)
        /\ LiteralAt(s, k, code)
        /\ WordBoundary(s, k + Len(code))

\* re.search(r'\bM0?2\b', s)
SearchM02(s) ==
    \E k \in DOMAIN s :
        /\ WordBoundary(s, k)
        /\ \/ LiteralAt(s, k, S(<<"M", "0", "2">>)) /\ WordBoundary(s, k + 3)
           \/ LiteralAt(s, k, S(<<"M", "2">>)) /\ WordBoundary(s, k + 2)

\* re.match(r'\s*N\d+', s)
MatchBlockNumber(s) ==
    LET t == LStrip(s)
    IN  Len(t) >= 2 /\ t[1] = Ord("N") /\ IsDigit(t[2])

RECURSIVE CollapseFrom(_, _, _)
CollapseFrom(s, k, acc) ==
    IF k > Len(s) THEN acc
    ELSE IF IsSpace(s[k])
         THEN CollapseFrom(s, k + 1, IF k > 1 /\ IsSpace(s[k - 1]) THEN acc ELSE Append(acc, 32))
    ELSE CollapseFrom(s, k + 1, Append(acc, s[k]))

\* re.sub(r'\s+', ' ', s)
CollapseWs(s) == CollapseFrom(s, 1, <<>>)

\* ============================================================ the inspector
\* data.count(sub) for a one- or two-byte sub (occurrences of \r\n cannot overlap)
Count(d, sub) == Cardinality({k \in DOMAIN d : LiteralAt(d, k, sub)})

\* detect_eol_stats(data): crlf, lf, cr
DetectEolStats(d) ==
    LET c == Count(d, <<13, 10>>)
    IN  [crlf |-> c, lf |-> Count(d, <<10>>) - c, cr |-> Count(d, <<13>>) - c]

\* detect_line_endings_label with the first test written without its "and not cr".
DetectLineEndingsLabelNoCr(d) ==
    LET st == DetectEolStats(d)
    IN  IF st.crlf # 0 /\ st.lf = 0 THEN "CRLF"
        ELSE IF st.lf # 0 /\ st.crlf = 0 /\ st.cr = 0 THEN "LF"
        ELSE IF st.cr # 0 /\ st.crlf = 0 /\ st.lf = 0 THEN "CR"
        ELSE IF st.crlf # 0 \/ st.lf # 0 \/ st.cr # 0 THEN "MIXED"
        ELSE "NONE"

\* detect_line_endings_label(data)
DetectLineEndingsLabel(d) ==
    LET st == DetectEolStats(d)
    IN  IF st.crlf # 0 /\ st.lf = 0 /\ st.cr = 0 THEN "CRLF"
        ELSE IF st.lf # 0 /\ st.crlf = 0 /\ st.cr = 0 THEN "LF"
        ELSE IF st.cr # 0 /\ st.crlf = 0 /\ st.lf = 0 THEN "CR"
        ELSE IF st.crlf # 0 \/ st.lf # 0 \/ st.cr # 0 THEN "MIXED"
        ELSE "NONE"

\* The label analyze_file derives inline from its own counts.
AnalyzeFileLabel(a, b, c) ==
    IF a # 0 /\ b = 0 /\ c = 0 THEN "CRLF"
    ELSE IF b # 0 /\ a = 0 /\ c = 0 THEN "LF"
    ELSE IF c # 0 /\ a = 0 /\ b = 0 THEN "CR"
    ELSE IF ~(a # 0 \/ b # 0 \/ c # 0) THEN "NONE"
    ELSE "MIXED"

\* data.decode("ascii"), and on UnicodeDecodeError data.decode("ascii", errors="replace"):
\* every byte above 127 becomes U+FFFD.
SafeDecode(d) ==
    IF \A k \in DOMAIN d : d[k] <= 127 THEN d
    ELSE [k \in DOMAIN d |-> IF d[k] <= 127 THEN d[k] ELSE 65533]

\* bytes.decode("latin-1", errors="ignore"): byte b is code point b, no byte fails.
DecodeLatin1(d) == [k \in DOMAIN d |-> d[k]]

RECURSIVE TranslateNewlines(_)
\* The text layer's universal newlines (newline=None): \r\n and \r are read as \n.
TranslateNewlines(t) ==
    IF t = <<>> THEN <<>>
    ELSE IF t[1] = 13 /\ Len(t) >= 2 /\ t[2] = 10 THEN <<10>> \o TranslateNewlines(SubSeqFrom(t, 3))
    ELSE IF t[1] = 13 THEN <<10>> \o TranslateNewlines(Tail(t))
    ELSE <<t[1]>> \o TranslateNewlines(Tail(t))

\* path.read_text(encoding="latin-1", errors="ignore")
ReadText(d) == TranslateNewlines(DecodeLatin1(d))

\* str.encode("latin-1", errors="ignore"): code points above 255 are dropped.
EncodeLatin1(t) == SelectSeq(t, LAMBDA c : c <= 255)

\* ============================================================ the line analyzer
Percent == S(<<"%">>)

\* The stop-like codes, in the order analyze_text_lines tries them.
StopCodes == <<"M0", "M00", "M1", "M01", "M2", "M02", "M30">>

CodeText(code) ==
    CASE code = "M0"  -> S(<<"M", "0">>)
      [] code = "M00" -> S(<<"M", "0", "0">>)
      [] code = "M1"  -> S(<<"M", "1">>)
      [] code = "M01" -> S(<<"M", "0", "1">>)
      [] code = "M2"  -> S(<<"M", "2">>)
      [] code = "M02" -> S(<<"M", "0", "2">>)
      [] code = "M30" -> S(<<"M", "3", "0">>)

RECURSIVE EnumerateFrom(_, _, _)
\* [k + off for k, keep in enumerate(flags, start=st) if keep]
EnumerateFrom(flags, st, off) ==
    IF flags = <<>> THEN <<>>
    ELSE (IF flags[1] THEN <<st + off>> ELSE <<>>) \o EnumerateFrom(Tail(flags), st + 1, off)

\* lines[1:-1]
Inner(ls) == IF Len(ls) <= 2 THEN <<>> ELSE SubSeq(ls, 2, Len(ls) - 1)

\* [i+1 for i,ln in enumerate(lines[1:-1], start=2) if ln.strip()=='%']
StrayPercentPositions(ls) ==
    EnumerateFrom([k \in DOMAIN Inner(ls) |-> Strip(Inner(ls)[k]) = Percent], 2, 1)

\* [i+1 for i,ln in enumerate(lines) if re.search(rf'\b{code}\b', ln)]
CodePositions(ls, code) ==
    EnumerateFrom([k \in DOMAIN ls |-> SearchWord(ls[k], CodeText(code))], 0, 1)

\* report["stop_codes"]: a code is a key only when some line matches it.
StopCodeTable(ls) ==
    LET found == {k \in DOMAIN StopCodes : CodePositions(ls, StopCodes[k]) # <<>>}
    IN  [code \in {StopCodes[k] : k \in found} |-> CodePositions(ls, code)]

RECURSIVE DigitRunEnd(_, _)
\* The index after the run of digits that starts at t[k] (k itself when t[k] is no digit).
DigitRunEnd(t, k) ==
    IF k <= Len(t) /\ IsDigit(t[k]) THEN DigitRunEnd(t, k + 1) ELSE k

RECURSIVE ParseInt(_, _)
\* int(ds) for a run of digits ds, most significant first; acc is the value so far.
ParseInt(ds, acc) ==
    IF ds = <<>> THEN acc ELSE ParseInt(Tail(ds), 10 * acc + (ds[1] - 48))

\* int(re.match(r'\s*N(\d+)', s).group(1)), for s that matches
BlockNumber(s) ==
    LET t == LStrip(s)
    IN  ParseInt(SubSeq(t, 2, DigitRunEnd(t, 2) - 1), 0)

RECURSIVE MonotonicFrom(_, _)
\* The block-number scan: False at the first number not above the last one seen.
MonotonicFrom(ls, last_n) ==
    IF ls = <<>> THEN TRUE
    ELSE IF MatchBlockNumber(ls[1])
         THEN (IF BlockNumber(ls[1]) <= last_n THEN FALSE
               ELSE MonotonicFrom(Tail(ls), BlockNumber(ls[1])))
    ELSE MonotonicFrom(Tail(ls), last_n)

\* A match of [XYZIJF][\-\+]?\d+\.(\d+) at t[k]: <<index after the match, len(group 1)>>,
\* or <<0, 0>> when there is none.
DecimalAt(t, k) ==
    LET p == IF k + 1 <= Len(t) /\ t[k + 1] \in {Ord("-"), Ord("+")} THEN k + 2 ELSE k + 1
        q == DigitRunEnd(t, p)
        r == DigitRunEnd(t, q + 1)
    IN  IF /\ t[k] \in {Ord("X"), Ord("Y"), Ord("Z"), Ord("I"), Ord("J"), Ord("F")}
           /\ q > p
           /\ q <= Len(t) /\ t[q] = Ord(".")
           /\ r > q + 1
        THEN <<r, r - (q + 1)>>
        ELSE <<0, 0>>

RECURSIVE FindDecimals(_, _)
\* re.findall(r'[XYZIJF][\-\+]?\d+\.(\d+)', t), as the lengths of the fractions found
FindDecimals(t, k) ==
    IF k > Len(t) THEN <<>>
    ELSE IF DecimalAt(t, k)[1] # 0
         THEN <<DecimalAt(t, k)[2]>> \o FindDecimals(t, DecimalAt(t, k)[1])
    ELSE FindDecimals(t, k + 1)

RECURSIVE SeqMax(_)
\* max(s, default=0)
SeqMax(s) == IF s = <<>> THEN 0 ELSE Max2(s[1], SeqMax(Tail(s)))

\* re.search(r'%.*\S', ln)
ContentAfterPercent(ln) ==
    \E k \in DOMAIN ln : ln[k] = Ord("%") /\ \E j \in (k + 1)..Len(ln) : ~IsSpace(ln[j])

\* The suspicion records of line k of ls, in the order of the checks.
SuspectOfLine(ls, k) ==
    LET ln == ls[k]
    IN  (IF Len(ln) > 120 THEN <<[line |-> k, reason |-> "line too long"]>> ELSE <<>>)
     \o (IF \E j \in DOMAIN ln : ln[j] = Ord("\t")
         THEN <<[line |-> k, reason |-> "tab character"]>> ELSE <<>>)
     \o (IF ContentAfterPercent(ln) /\ Strip(ln) # Percent
         THEN <<[line |-> k, reason |-> "content after %"]>> ELSE <<>>)
     \o (IF SearchM02(ln) /\ k # Len(ls)
         THEN <<[line |-> k, reason |-> "M02 not at end"]>> ELSE <<>>)

RECURSIVE SuspectFrom(_, _)
SuspectFrom(ls, k) ==
    IF k > Len(ls) THEN <<>> ELSE SuspectOfLine(ls, k) \o SuspectFrom(ls, k + 1)

\* analyze_text_lines(lines)
AnalyzeTextLines(ls) ==
    LET decs == FindDecimals(Concat(ls, <<10>>), 1)
    IN  [ total_lines             |-> Len(ls),
          starts_with_percent     |-> IF ls # <<>> THEN Strip(ls[1]) = Percent ELSE FALSE,
          ends_with_M02           |-> ls # <<>> /\ SearchM02(ls[Len(ls)]),
          has_block_numbers       |-> \E k \in DOMAIN ls : MatchBlockNumber(ls[k]),
          block_numbers_monotonic |-> MonotonicFrom(ls, -1),
          max_line_length         |-> SeqMax([k \in DOMAIN ls |-> Len(ls[k])]),
          has_semicolon_comments  |-> \E k \in DOMAIN ls : \E j \in DOMAIN ls[k] : ls[k][j] = Ord(";"),
          stray_percent_positions |-> StrayPercentPositions(ls),
          stop_codes              |-> StopCodeTable(ls),
          precision_max_places    |-> SeqMax(decs),
          precision_over_4_count  |-> Len(SelectSeq(decs, LAMBDA d : d > 4)),
          suspect_lines           |-> SuspectFrom(ls, 1) ]

\* ============================================================ the normalizer
\* str(k)
IntStr(k) == IF k < 0 THEN <<Ord("-")>> \o Digits(0 - k) ELSE Digits(k)

\* f"N{k} {s}"
Numbered(k, s) == <<Ord("N")>> \o IntStr(k) \o <<Ord(" ")>> \o s

\* The line as the loop holds it before the block-number test: stripped, and with
\* strip_semicolon cut at the first ';' and right-stripped.  <<>>: the line is skipped.
Prepared(ln, strip_semicolon) ==
    LET s == Strip(ln)
    IN  IF s = <<>> THEN <<>>
        ELSE IF strip_semicolon /\ \E k \in DOMAIN s : s[k] = Ord(";")
             THEN RStrip(BeforeSemicolon(s))
        ELSE s

\* The loop body with "n += step" moved out of the else branch: every emitted line advances n.
ProcessLineAlwaysAdvance(ln, k, step, strip_semicolon) ==
    LET s == Prepared(ln, strip_semicolon)
    IN  IF s = <<>> THEN [out |-> <<>>, given |-> <<>>, n |-> k]
        ELSE IF MatchBlockNumber(s) THEN [out |-> <<s>>, given |-> << <<>> >>, n |-> k + step]
        ELSE [out |-> <<Numbered(k, CollapseWs(s))>>, given |-> << <<k>> >>, n |-> k + step]

\* One pass of the for loop's body over ln with the counter at k:
\* what is appended to out_lines, the number it was given, and the counter afterwards.
ProcessLine(ln, k, step, strip_semicolon) ==
    LET s == Prepared(ln, strip_semicolon)
    IN  IF s = <<>> THEN [out |-> <<>>, given |-> <<>>, n |-> k]
        ELSE IF MatchBlockNumber(s) THEN [out |-> <<s>>, given |-> << <<>> >>, n |-> k]
        ELSE [out |-> <<Numbered(k, CollapseWs(s))>>, given |-> << <<k>> >>, n |-> k + step]

\* The cleanup with the pattern written \bM02\b: lines with M2 are kept.
KeptByCleanupM02Only(ls) == {k \in DOMAIN ls : ~SearchWord(ls[k], S(<<"M", "0", "2">>))}

\* The indices of ls whose line has no whole-word M2/M02.
KeptByCleanup(ls) == {k \in DOMAIN ls : ~SearchM02(ls[k])}

RECURSIVE SelectAt(_, _, _)
\* The entries of s at the indices in keep, in order, from index k on.
SelectAt(s, keep, k) ==
    IF k > Len(s) THEN <<>>
    ELSE (IF k \in keep THEN <<s[k]>> ELSE <<>>) \o SelectAt(s, keep, k + 1)

\* The stop line appended with ensure_M02: f"N{k} M02"
StopLine(k) == Numbered(k, S(<<"M", "0", "2">>))

\* ("\r\n".join(out_lines) + "\r\n") if crlf else ("\n".join(out_lines) + "\n"), encoded
Serialize(ls, use_crlf) ==
    LET eol == IF use_crlf THEN <<13, 10>> ELSE <<10>>
    IN  EncodeLatin1(Concat(ls, eol) \o eol)

\* ============================================================ the comparator
Eof == S(<<"<", "E", "O", "F", ">">>)

\* compare_files' trim(lines)
Trim(ls, pol) ==
    LET h == IF pol.skip_header_percent /\ ls # <<>> /\ Strip(ls[1]) = Percent
             THEN Tail(ls) ELSE ls
    IN  IF pol.skip_trailing_m02 /\ h # <<>> /\ SearchM02(h[Len(h)])
        THEN SubSeq(h, 1, Len(h) - 1) ELSE h

\* The line taken without .strip()
LineOrEofUnstripped(ls, k) == IF k < Len(ls) THEN ls[k + 1] ELSE Eof

\* la[i].strip() if i < len(la) else "<EOF>"  (k is the 0-based index i)
LineOrEof(ls, k) == IF k < Len(ls) THEN Strip(ls[k + 1]) ELSE Eof

\* The test with the whitespace runs collapsed on one side only.
DifferOneSided(a_ln, b_ln) == a_ln # CollapseWs(b_ln)

\* re.sub(r'\s+', ' ', a_ln) != re.sub(r'\s+', ' ', b_ln)
Differ(a_ln, b_ln) == CollapseWs(a_ln) # CollapseWs(b_ln)

\* ============================================================ states not in use
InspectIdle ==
    /\ crlf = None /\ lf = None /\ cr = None /\ eol_label = None /\ label = None
    /\ non_ascii_positions = <<>> /\ text = <<>> /\ lines = <<>>

NormIdle ==
    /\ cfg = None /\ src_lines = <<>> /\ out_lines = <<>> /\ n = 0 /\ idx = 0
    /\ assigned = <<>> /\ content = <<>> /\ pass = 0 /\ first_content = <<>> /\ first_n = 0

CmpIdle ==
    /\ policy = None /\ file_a = <<>> /\ file_b = <<>>
    /\ la = <<>> /\ lb = <<>> /\ i = 0 /\ diff = None

\* ============================================================ SpecInspect
\* The byte values the inspected buffers are made of: LF, FF, CR, 'G', NEL (0x85), 0xE9.
InspectBytes == {10, 12, 13, 71, 133, 233}

InitInspect ==
    /\ pc = "start"
    /\ data \in SeqsUpTo(InspectBytes, MaxBytes)
    /\ InspectIdle /\ report = None /\ NormIdle /\ CmpIdle

\* A call of detect_line_endings_label(data).
CallDetectLabel ==
    /\ pc = "start"
    /\ label' = DetectLineEndingsLabel(data)
    /\ pc' = "analyze_file"
    /\ UNCHANGED <<data, crlf, lf, cr, eol_label, non_ascii_positions, text, lines,
                   analyzeVars, normVars, cmpVars>>

\* analyze_file: crlf, lf, cr = detect_eol_stats(data)
AF_EolStats ==
    /\ pc = "analyze_file"
    /\ crlf' = DetectEolStats(data).crlf
    /\ lf' = DetectEolStats(data).lf
    /\ cr' = DetectEolStats(data).cr
    /\ pc' = "eol_label"
    /\ UNCHANGED <<data, eol_label, label, non_ascii_positions, text, lines,
                   analyzeVars, normVars, cmpVars>>

\* analyze_file: the if/elif chain that sets eol_label
AF_EolLabel ==
    /\ pc = "eol_label"
    /\ eol_label' = AnalyzeFileLabel(crlf, lf, cr)
    /\ pc' = "non_ascii"
    /\ UNCHANGED <<data, crlf, lf, cr, label, non_ascii_positions, text, lines,
                   analyzeVars, normVars, cmpVars>>

\* analyze_file: non_ascii_positions = [i for i,b in enumerate(data) if b > 127]
AF_NonAscii ==
    /\ pc = "non_ascii"
    /\ non_ascii_positions' = EnumerateFrom([k \in DOMAIN data |-> data[k] > 127], 0, 0)
    /\ pc' = "decode"
    /\ UNCHANGED <<data, crlf, lf, cr, eol_label, label, text, lines,
                   analyzeVars, normVars, cmpVars>>

\* analyze_file: text = safe_decode(data)
AF_SafeDecode ==
    /\ pc = "decode"
    /\ text' = SafeDecode(data)
    /\ pc' = "split"
    /\ UNCHANGED <<data, crlf, lf, cr, eol_label, label, non_ascii_positions, lines,
                   analyzeVars, normVars, cmpVars>>

\* analyze_file: lines = text.splitlines(); text_report = analyze_text_lines(lines)
AF_SplitAnalyze ==
    /\ pc = "split"
    /\ lines' = SplitLines(text)
    /\ report' = AnalyzeTextLines(lines')
    /\ pc' = "analyzed"
    /\ UNCHANGED <<data, crlf, lf, cr, eol_label, label, non_ascii_positions, text,
                   normVars, cmpVars>>

\* normalize_to_iso and compare_files: path.read_text(encoding="latin-1", errors="ignore")
RT_ReadText ==
    /\ pc = "start"
    /\ text' = ReadText(data)
    /\ pc' = "read_text"
    /\ UNCHANGED <<data, crlf, lf, cr, eol_label, label, non_ascii_positions, lines,
                   analyzeVars, normVars, cmpVars>>

\* normalize_to_iso and compare_files: .splitlines() of the text read
RT_SplitLines ==
    /\ pc = "read_text"
    /\ lines' = SplitLines(text)
    /\ pc' = "read_lines"
    /\ UNCHANGED <<data, crlf, lf, cr, eol_label, label, non_ascii_positions, text,
                   analyzeVars, normVars, cmpVars>>

NextInspect ==
    \/ CallDetectLabel \/ AF_EolStats \/ AF_EolLabel \/ AF_NonAscii
    \/ AF_SafeDecode \/ AF_SplitAnalyze \/ RT_ReadText \/ RT_SplitLines

SpecInspect == InitInspect /\ [][NextInspect]_vars

\* ============================================================ SpecAnalyze
\* The analyze example of the documentation: N10 G01 X1.23456 Y2.0
ExampleBlock ==
    S(<<"N", "1", "0", " ", "G", "0", "1", " ", "X", "1", ".", "2", "3", "4", "5", "6",
        " ", "Y", "2", ".", "0">>)

\* The lines the analyzed sequences are made of.
AnalyzeLines ==
    { Percent,
      S(<<" ", "%", "\t">>),
      ExampleBlock,
      S(<<"M", "0", "2">>),
      S(<<"M", "2", " ", "M", "3", "0">>),
      S(<<"N", "5", " ", "M", "0", "0", ";", "c">>),
      S(<<"%", "G", "1">>),
      <<>> }

InitAnalyze ==
    /\ pc = "analyze_text_lines"
    /\ lines \in SeqsUpTo(AnalyzeLines, MaxAnaLines)
    /\ data = <<>> /\ crlf = None /\ lf = None /\ cr = None /\ eol_label = None
    /\ label = None /\ non_ascii_positions = <<>> /\ text = <<>>
    /\ report = None /\ NormIdle /\ CmpIdle

\* report = analyze_text_lines(lines)
AnalyzeLinesCall ==
    /\ pc = "analyze_text_lines"
    /\ report' = AnalyzeTextLines(lines)
    /\ pc' = "reported"
    /\ UNCHANGED <<inspectVars, normVars, cmpVars>>

NextAnalyze == AnalyzeLinesCall

SpecAnalyze == InitAnalyze /\ [][NextAnalyze]_vars

\* ============================================================ SpecNormalize
\* The lines the normalized files are made of.
SourceLines ==
    { Percent,
      S(<<" ", "G", "1", " ", " ", "X", ";", "c">>),
      S(<<"M", "0", "2">>),
      S(<<"N", "5", " ", "G", "1">>),
      S(<<"N", "7", " ", "M", "2">>),
      S(<<";", "c">>),
      <<>> }

\* The <<start_n, step>> pairs tried: the defaults, and a pair with start_n # step.
Counters == {<<10, 10>>, <<1, 5>>}

Configs ==
    { c \in [ start_n : {p[1] : p \in Counters}, step : {p[2] : p \in Counters},
              add_percent : BOOLEAN, ensure_M02 : BOOLEAN,
              crlf : BOOLEAN, strip_semicolon : BOOLEAN ] :
        <<c.start_n, c.step>> \in Counters }

\* A file of the lines ls, each ended by \n.
FileOf(ls) == IF ls = <<>> THEN <<>> ELSE EncodeLatin1(Concat(ls, <<10>>) \o <<10>>)

InitNormalize ==
    /\ pc = "normalize"
    /\ data \in {FileOf(ls) : ls \in SeqsUpTo(SourceLines, MaxSrcLines)}
    /\ cfg \in Configs
    /\ src_lines = <<>> /\ out_lines = <<>> /\ n = 0 /\ idx = 0 /\ assigned = <<>>
    /\ content = <<>> /\ pass = 1 /\ first_content = <<>> /\ first_n = 0
    /\ InspectIdle /\ report = None /\ CmpIdle

\* raw = input_path.read_text(...); src_lines = raw.splitlines(); out_lines = []
N_Read ==
    /\ pc = "normalize"
    /\ src_lines' = SplitLines(ReadText(data))
    /\ out_lines' = <<>>
    /\ assigned' = <<>>
    /\ pc' = "header"
    /\ UNCHANGED <<cfg, n, idx, content, pass, first_content, first_n,
                   inspectVars, analyzeVars, cmpVars>>

\* if add_percent: ... ; n = start_n
N_Header ==
    /\ pc = "header"
    /\ IF cfg.add_percent
       THEN /\ out_lines' = Append(out_lines, Percent)
            /\ assigned' = Append(assigned, <<>>)
            /\ src_lines' = IF src_lines = <<>> \/ Strip(src_lines[1]) # Percent
                            THEN src_lines ELSE Tail(src_lines)
       ELSE UNCHANGED <<out_lines, assigned, src_lines>>
    /\ n' = cfg.start_n
    /\ idx' = 1
    /\ pc' = "loop"
    /\ UNCHANGED <<cfg, content, pass, first_content, first_n,
                   inspectVars, analyzeVars, cmpVars>>

\* One iteration of: for ln in src_lines
N_Line ==
    /\ pc = "loop"
    /\ idx <= Len(src_lines)
    /\ LET r == ProcessLine(src_lines[idx], n, cfg.step, cfg.strip_semicolon)
       IN  /\ out_lines' = out_lines \o r.out
           /\ assigned' = assigned \o r.given
           /\ n' = r.n
    /\ idx' = idx + 1
    /\ UNCHANGED <<pc, cfg, src_lines, content, pass, first_content, first_n,
                   inspectVars, analyzeVars, cmpVars>>

\* The loop is over; if ensure_M02: drop the lines with M2/M02 and append N<n> M02
N_EnsureM02 ==
    /\ pc = "loop"
    /\ idx > Len(src_lines)
    /\ IF cfg.ensure_M02
       THEN /\ out_lines' = Append(SelectAt(out_lines, KeptByCleanup(out_lines), 1), StopLine(n))
            /\ assigned' = Append(SelectAt(assigned, KeptByCleanup(out_lines), 1), <<n>>)
       ELSE UNCHANGED <<out_lines, assigned>>
    /\ pc' = "serialize"
    /\ UNCHANGED <<cfg, src_lines, n, idx, content, pass, first_content, first_n,
                   inspectVars, analyzeVars, cmpVars>>

\* content = ...; output_path.write_bytes(content.encode("latin-1", errors="ignore"))
N_Write ==
    /\ pc = "serialize"
    /\ content' = Serialize(out_lines, cfg.crlf)
    /\ pc' = "written"
    /\ UNCHANGED <<cfg, src_lines, out_lines, n, idx, assigned, pass, first_content, first_n,
                   inspectVars, analyzeVars, cmpVars>>

\* normalize_to_iso is run again, with the same configuration, on the file it wrote.
N_Again ==
    /\ pc = "written"
    /\ pass = 1
    /\ data' = content
    /\ first_content' = content
    /\ first_n' = n
    /\ pass' = 2
    /\ src_lines' = <<>> /\ out_lines' = <<>> /\ n' = 0 /\ idx' = 0 /\ assigned' = <<>>
    /\ content' = <<>>
    /\ pc' = "normalize"
    /\ UNCHANGED <<cfg, crlf, lf, cr, eol_label, label, non_ascii_positions, text, lines,
                   analyzeVars, cmpVars>>

NextNormalize == N_Read \/ N_Header \/ N_Line \/ N_EnsureM02 \/ N_Write \/ N_Again

SpecNormalize == InitNormalize /\ [][NextNormalize]_vars

\* ============================================================ SpecCompare
\* The lines the compared files are made of.
CompareLines ==
    { Percent,
      S(<<"N", "9", " ", "M", "2">>),
      S(<<"G", "1", " ", "X">>),
      S(<<" ", "G", "1", " ", " ", "X", " ">>),
      Eof }

Policies == [skip_header_percent : BOOLEAN, skip_trailing_m02 : BOOLEAN]

InitCompare ==
    /\ pc = "compare"
    /\ file_a \in SeqsUpTo(CompareLines, MaxCmpLines)
    /\ file_b \in SeqsUpTo(CompareLines, MaxCmpLines)
    /\ policy \in Policies
    /\ la = file_a /\ lb = file_b /\ i = 0 /\ diff = None
    /\ data = <<>> /\ InspectIdle /\ report = None /\ NormIdle

\* la, lb = trim(la), trim(lb)
C_Trim ==
    /\ pc = "compare"
    /\ la' = Trim(la, policy)
    /\ lb' = Trim(lb, policy)
    /\ i' = 0
    /\ pc' = "loop"
    /\ UNCHANGED <<policy, file_a, file_b, diff, inspectVars, analyzeVars, normVars>>

\* One iteration of: for i in range(max_len)
C_Step ==
    /\ pc = "loop"
    /\ i < Max2(Len(la), Len(lb))
    /\ LET a_ln == LineOrEof(la, i)
           b_ln == LineOrEof(lb, i)
       IN  IF Differ(a_ln, b_ln)
           THEN /\ diff' = [first_diff_line |-> i + 1, a_line |-> a_ln, b_line |-> b_ln]
                /\ pc' = "returned"
                /\ i' = i
           ELSE /\ i' = i + 1
                /\ UNCHANGED <<diff, pc>>
    /\ UNCHANGED <<policy, file_a, file_b, la, lb, inspectVars, analyzeVars, normVars>>

\* The loop is over: return {"first_diff_line": None}
C_NoDiff ==
    /\ pc = "loop"
    /\ i >= Max2(Len(la), Len(lb))
    /\ diff' = [first_diff_line |-> None]
    /\ pc' = "returned"
    /\ UNCHANGED <<policy, file_a, file_b, la, lb, i, inspectVars, analyzeVars, normVars>>

NextCompare == C_Trim \/ C_Step \/ C_NoDiff

SpecCompare == InitCompare /\ [][NextCompare]_vars

\* ============================================================ the claims
\* The block numbers of as that the normalizer gave, in emission order.
GivenNumbers(as) == Concat(as, <<>>)

\* s is a, a + d, a + 2d, ...
Arithmetic(s, a, d) == \A j \in DOMAIN s : s[j] = a + (j - 1) * d

\* The lines of src the loop emits as they are: not skipped, and carrying a block number.
ExplicitLines(src, strip_semicolon) ==
    LET prep == [k \in DOMAIN src |-> Prepared(src[k], strip_semicolon)]
    IN  SelectSeq(prep, LAMBDA q : q # <<>> /\ MatchBlockNumber(q))

\* How many lines of src the loop numbers itself.
NumberedCount(src, strip_semicolon) ==
    Cardinality({k \in DOMAIN src :
        /\ Prepared(src[k], strip_semicolon) # <<>>
        /\ ~MatchBlockNumber(Prepared(src[k], strip_semicolon))})

\* The entries of out_lines the loop emitted without numbering them (the header aside).
UnnumberedOut ==
    LET body == IF cfg.add_percent THEN 2 ELSE 1
    IN  SelectAt(out_lines, {k \in DOMAIN out_lines : k >= body /\ assigned[k] = <<>>}, 1)

RECURSIVE TokensFrom(_, _, _, _)
TokensFrom(s, k, cur, acc) ==
    IF k > Len(s) THEN (IF cur = <<>> THEN acc ELSE Append(acc, cur))
    ELSE IF IsSpace(s[k])
         THEN TokensFrom(s, k + 1, <<>>, IF cur = <<>> THEN acc ELSE Append(acc, cur))
    ELSE TokensFrom(s, k + 1, Append(cur, s[k]), acc)

\* The maximal runs of non-whitespace characters of s, in order.
Tokens(s) == TokensFrom(s, 1, <<>>, <<>>)

\* The tokens of line k (1-based) of ls, or of the placeholder <EOF> past its end.
TokensOrEof(ls, k) == IF k <= Len(ls) THEN Tokens(ls[k]) ELSE <<Eof>>

\* The written bytes, read back as lines.
WrittenLines == SplitLines(ReadText(content))

\* ---- C1 (stated as claimed; the code violates it)
\* C1: normalizing the output of normalize_to_iso again with the same configuration
\* writes the same bytes as the first run, the number of the final N<counter> M02 included.
C1_Idempotent ==
    (pc = "written" /\ pass = 2) => content = first_content

\* ---- C2
\* C2 as claimed: in the final output the numbers the normalizer gave are
\* start_n, start_n + step, start_n + 2 step, ... in emission order, the appended
\* stop line included.
C2_ExactStepInFinalOutput ==
    pc = "written" => Arithmetic(GivenNumbers(assigned), cfg.start_n, cfg.step)

\* C2 amended: up to the stop-code cleanup the numbers given are start_n, start_n + step,
\* ... and the counter is start_n + step * (lines numbered); in the final output they are
\* still strictly increasing and each is start_n plus a multiple of step, so consecutive
\* ones differ by a positive multiple of step (exactly step without ensure_M02); each
\* given number is the block number in the line's text; the lines emitted unnumbered are
\* the prepared source lines that carried a block number, unchanged (less the ones the
\* cleanup removed), and they do not advance the counter.
C2_AssignedNumbers ==
    LET given == GivenNumbers(assigned)
        expl  == ExplicitLines(src_lines, cfg.strip_semicolon)
    IN  /\ pc = "loop" =>
              /\ Arithmetic(given, cfg.start_n, cfg.step)
              /\ n = cfg.start_n + cfg.step * Len(given)
              /\ idx > Len(src_lines) => UnnumberedOut = expl
        /\ pc \in {"serialize", "written"} =>
              /\ \A j \in 1..(Len(given) - 1) :
                    /\ given[j + 1] > given[j]
                    /\ (given[j + 1] - given[j]) % cfg.step = 0
              /\ \A j \in DOMAIN given :
                    given[j] >= cfg.start_n /\ (given[j] - cfg.start_n) % cfg.step = 0
              /\ ~cfg.ensure_M02 => Arithmetic(given, cfg.start_n, cfg.step)
              /\ UnnumberedOut =
                    IF cfg.ensure_M02 THEN SelectSeq(expl, LAMBDA q : ~SearchM02(q)) ELSE expl
              /\ n = cfg.start_n + cfg.step * NumberedCount(src_lines, cfg.strip_semicolon)
        /\ pc \in {"loop", "serialize", "written"} =>
              /\ Len(assigned) = Len(out_lines)
              /\ \A k \in DOMAIN out_lines :
                    assigned[k] # <<>> =>
                        /\ MatchBlockNumber(out_lines[k])
                        /\ BlockNumber(out_lines[k]) = assigned[k][1]

\* A final output, with ensure_M02, where the cleanup removed a numbered line between two
\* kept ones and an explicitly numbered line was kept.
C2_Witness ==
    /\ pc = "written" /\ pass = 1 /\ cfg.ensure_M02
    /\ \E j \in 1..(Len(GivenNumbers(assigned)) - 1) :
          GivenNumbers(assigned)[j + 1] - GivenNumbers(assigned)[j] = 2 * cfg.step
    /\ UnnumberedOut # <<>>

\* The result is {"first_diff_line": None}.
NoDivergence(d) == "a_line" \notin DOMAIN d /\ d.first_diff_line = None

\* ---- C3
\* C3: comparing a file with itself reports no divergence, whatever the policy flags.
C3_Reflexive ==
    (pc = "returned" /\ file_a = file_b) => NoDivergence(diff)

\* A file of two lines, one with whitespace runs, compared with itself after trimming.
C3_Witness ==
    /\ pc = "returned" /\ file_a = file_b /\ Len(file_a) = 2
    /\ Len(la) < Len(file_a)
    /\ \E k \in DOMAIN la : la[k] # CollapseWs(Strip(la[k]))

\* ---- C4
\* C4: the label of detect_line_endings_label and the one analyze_file derives are the
\* same, one of CRLF, LF, CR, MIXED, NONE; the three counts are not negative; the label
\* is NONE iff all counts are zero, MIXED iff more than one is nonzero, and otherwise
\* the name of the one nonzero style.
C4_LabelExclusive ==
    pc \in {"non_ascii", "decode", "split", "analyzed"} =>
        LET nonzero == {k \in {"CRLF", "LF", "CR"} :
                            (k = "CRLF" /\ crlf # 0) \/ (k = "LF" /\ lf # 0) \/ (k = "CR" /\ cr # 0)}
        IN  /\ label \in {"CRLF", "LF", "CR", "MIXED", "NONE"}
            /\ eol_label = label
            /\ crlf >= 0 /\ lf >= 0 /\ cr >= 0
            /\ (label = "NONE") <=> (nonzero = {})
            /\ (label = "MIXED") <=> (Cardinality(nonzero) > 1)
            /\ (Cardinality(nonzero) = 1) => (label \in nonzero)

\* A buffer with a CRLF and a lone CR, labelled.
C4_Witness ==
    pc = "analyzed" /\ crlf > 0 /\ cr > 0 /\ lf = 0 /\ label = "MIXED"

\* ---- C5
\* The lines of the analyze example.
ExampleLines == <<Percent, ExampleBlock, S(<<"M", "0", "2">>)>>

\* C5 as claimed: the example's stop_codes table is {"M2": [3], "M02": [3]}.
C5_ExampleUnderBothKeys ==
    (pc = "reported" /\ lines = ExampleLines) =>
        report.stop_codes = ("M2" :> <<3>> @@ "M02" :> <<3>>)

\* C5 amended: the example's stop_codes table is {"M02": [3]}: the stop token written
\* M02 is recorded at its 1-based position under the key M02 only, and no other key
\* (M2 included) is present.
C5_ExampleUnderM02Only ==
    (pc = "reported" /\ lines = ExampleLines) =>
        /\ DOMAIN report.stop_codes = {"M02"}
        /\ report.stop_codes["M02"] = <<3>>

\* The example analyzed.
C5_Witness ==
    pc = "reported" /\ lines = ExampleLines /\ report.total_lines = 3

\* ---- C6 (stated as claimed; the code violates it)
\* C6: stray_percent_positions is the ascending list of the 1-based positions p,
\* 1 < p < total_lines, whose line trims to exactly %.
C6_StrayPositions ==
    pc = "reported" =>
        report.stray_percent_positions =
            EnumerateFrom([k \in DOMAIN lines |->
                              1 < k /\ k < Len(lines) /\ Strip(lines[k]) = Percent], 1, 0)

\* ---- C7 (stated as claimed; the code violates it)
\* C7: the analysis path's decoding is lossless: a buffer that differs from the analyzed
\* one in one byte decodes to a different text.
C7_DecodeLossless ==
    pc \in {"split", "analyzed"} =>
        \A k \in DOMAIN data : \A b \in InspectBytes :
            b # data[k] => SafeDecode([data EXCEPT ![k] = b]) # text

\* ---- C8 (stated as claimed; the code violates it)
\* C8: in analyze_file and in the reads of normalize_to_iso and compare_files the number
\* of lines is crlf + lf + cr, plus one when the content is not empty and does not end
\* with a terminator: the text is split at CRLF, CR and LF and nowhere else.
C8_LineCount ==
    pc \in {"analyzed", "read_lines"} =>
        LET st   == DetectEolStats(data)
            tail == IF data # <<>> /\ data[Len(data)] \notin {10, 13} THEN 1 ELSE 0
        IN  Len(lines) = st.crlf + st.lf + st.cr + tail

\* ---- C9
\* C9: on the trimmed sequences la and lb, first_diff_line is the least 1-based index up
\* to max(len(la), len(lb)) at which the two lines (the placeholder <EOF> for a missing
\* one) differ in more than the lengths of their whitespace runs, and None iff there is
\* no such index.
C9_FirstDifference ==
    pc = "returned" =>
        LET differing == {k \in 1..Max2(Len(la), Len(lb)) :
                              TokensOrEof(la, k) # TokensOrEof(lb, k)}
        IN  /\ NoDivergence(diff) <=> (differing = {})
            /\ differing # {} =>
                  /\ diff.first_diff_line \in differing
                  /\ \A k \in differing : diff.first_diff_line <= k

\* A divergence at line 2 after a first pair of lines that differ in whitespace only.
C9_Witness ==
    /\ pc = "returned" /\ ~NoDivergence(diff) /\ diff.first_diff_line = 2
    /\ Len(la) = 2 /\ Len(lb) = 2
    /\ la[1] # lb[1]

\* ---- C10
\* C10: with ensure_M02 the written output has exactly one line with a whole-word M2 or
\* M02, it is the last line, and it is N<counter> M02 with the counter as the last
\* assignment left it: start_n + step * (lines numbered).
C10_SingleTrailingStop ==
    (pc = "written" /\ cfg.ensure_M02) =>
        LET outl == WrittenLines
        IN  /\ outl # <<>>
            /\ outl = out_lines
            /\ \A k \in DOMAIN outl : SearchM02(outl[k]) <=> (k = Len(outl))
            /\ outl[Len(outl)] = StopLine(n)
            /\ n = cfg.start_n + cfg.step * NumberedCount(src_lines, cfg.strip_semicolon)

\* An output written with ensure_M02 from a source with a numbered line and a stop code
\* that is not on its last line.
C10_Witness ==
    /\ pc = "written" /\ pass = 1 /\ cfg.ensure_M02
    /\ n > cfg.start_n
    /\ \E k \in 1..(Len(src_lines) - 1) : SearchM02(src_lines[k])

====
